---------------------------- MODULE Spec2Model ----------------------------
(***************************************************************************)
(* Model of web_transcriber.py: one transcription run per browser session  *)
(* (create_transcriber_app, lines 132-210), with process_large_file        *)
(* (lines 76-92) and extract_audio (lines 61-74) inlined at their call     *)
(* sites.  Runs of different sessions share the working directory, hence   *)
(* the "output" directory and the wall clock.                              *)
(*                                                                         *)
(* Sizes are scaled: one unit of ChunkSize stands for 1 MiB of upload, one *)
(* unit of FrameBatch for 2000 audio frames.  A text is a sequence of      *)
(* characters; " " is the whitespace character.                            *)
(***************************************************************************)
EXTENDS Integers, Sequences, FiniteSets, TLC

Runs == {1, 2}

\* bounds of the model
MaxSize == 3            \* largest upload, in units
MaxFrames == 3          \* longest extracted audio, in frame units
ConcFrames == 1         \* longest audio when two runs are in flight
MaxClock == 2           \* last clock tick
TicksPerSecond == 2     \* clock ticks per second of wall time

\* program constants (scaled)
ChunkSize == 2          \* chunk_size=2*1024*1024, line 76
FrameBatch == 2         \* wf.readframes(4000), lines 170 and 179
HeaderLen == 4          \* heading + 3 paragraphs, lines 152-155

Texts == {<<>>, <<" ">>, <<"a">>, <<"b">>}
FileNames == {"video.mp4"}

NoName == -1
NoArtifact == [owner |-> 0, doc |-> <<>>, complete |-> FALSE]
NoUpload == [size |-> 0, frames |-> 0, name |-> "video.mp4"]

VARIABLES
    clock,            \* wall clock, in ticks (datetime.now())
    pc,               \* position of each run in create_transcriber_app
    upload,           \* uploaded_file: declared size, name, audio it carries
    videoFile,        \* does the NamedTemporaryFile of the run exist on disk
    bytesRead,        \* bytes_read
    ingestBar,        \* values shown by the progress bar of process_large_file
    progressBar,      \* values shown by progress_bar of line 134
    tempDir,          \* is the TemporaryDirectory of line 143 open
    audioFile,        \* does temp_dir/audio.wav exist
    framesRead,       \* read position in the wave file
    framesProcessed,  \* frames_processed
    doc,              \* paragraphs of the Document, in order
    engineLog,        \* calls made on the recognizer, in order
    outputFile,       \* output_file of the run (NoName before line 189)
    outputDir,        \* the files of the "output" directory
    offered,          \* what st.download_button was given
    artifactLog,      \* save / offer / remove steps the run has performed
    errors,           \* st.error messages shown to the user of the run
    failedAt          \* stage the run failed at, "none" otherwise

vars == <<clock, pc, upload, videoFile, bytesRead, ingestBar, progressBar,
          tempDir, audioFile, framesRead, framesProcessed, doc, engineLog,
          outputFile, outputDir, offered, artifactLog, errors, failedAt>>

-----------------------------------------------------------------------------
\* Pure helpers

Min(a, b) == IF a <= b THEN a ELSE b

\* min(n / d, 1.0) as a fraction <<numerator, denominator>>
Fraction(n, d) == IF n >= d THEN <<1, 1>> ELSE <<n, d>>

FracLeq(f, g) == f[1] * g[2] <= g[1] * f[2]
FracIsOne(f) == f[1] = f[2]

\* Python truthiness of a str: `if result["text"]:`
Truthy(t) == Len(t) > 0

\* doc.add_paragraph(text) appends after the last paragraph
\* (AddParagraphFront: a variant that inserts right after the header)
AddParagraphFront(d, t) == SubSeq(d, 1, HeaderLen) \o <<t>> \o SubSeq(d, HeaderLen + 1, Len(d))
AddParagraph(d, t) == Append(d, t)

\* lines 151-155
NewDocument(name) == <<<<"Trascrizione Video">>, <<"Data: ">>, <<"File originale: ", name>>, <<>>>>

\* f'trascrizione_{datetime.now().strftime("%Y%m%d_%H%M%S")}.docx': the clock
\* truncated to whole seconds
OutputName(now) == now \div TicksPerSecond

\* `if len(data) == 0: break`
\* (StopOnShortRead: a variant that breaks on any read shorter than a batch)
StopOnShortRead(n) == n < FrameBatch
EndOfStream(n) == n = 0

\* `if not extract_audio(...): st.error(...); return`
\* (AfterExtractNoReturn: a variant without the return)
AfterExtractNoReturn(ok) == "prepare"
AfterExtract(ok) == IF ok THEN "prepare" ELSE "done"

\* files of a directory: a function from names to contents
WriteFile(fs, n, content) == [x \in DOMAIN fs \cup {n} |-> IF x = n THEN content ELSE fs[x]]
Exists(fs, n) == n \in DOMAIN fs

\* os.remove(path)
\* (KeepFile: a variant that removes nothing; ClearDirectory: a variant that
\* empties the directory)
KeepFile(fs, n) == fs
ClearDirectory(fs, n) == [x \in {} |-> NoArtifact]
RemoveFile(fs, n) == [x \in DOMAIN fs \ {n} |-> fs[x]]

\* TemporaryDirectory.__exit__: the directory and audio.wav in it are deleted
\* (LeaveAudio: a variant that leaves audio.wav behind)
LeaveAudio(a, r) == a
CleanupTempDir(a, r) == [a EXCEPT ![r] = FALSE]

-----------------------------------------------------------------------------
\* Initial states

InitCommon ==
    /\ clock = 0
    /\ videoFile = [r \in Runs |-> FALSE]
    /\ bytesRead = [r \in Runs |-> 0]
    /\ ingestBar = [r \in Runs |-> <<>>]
    /\ progressBar = [r \in Runs |-> <<>>]
    /\ tempDir = [r \in Runs |-> FALSE]
    /\ audioFile = [r \in Runs |-> FALSE]
    /\ framesRead = [r \in Runs |-> 0]
    /\ framesProcessed = [r \in Runs |-> 0]
    /\ doc = [r \in Runs |-> <<>>]
    /\ engineLog = [r \in Runs |-> <<>>]
    /\ outputFile = [r \in Runs |-> NoName]
    /\ outputDir = [x \in {} |-> NoArtifact]
    /\ offered = [r \in Runs |-> NoArtifact]
    /\ artifactLog = [r \in Runs |-> <<>>]
    /\ errors = [r \in Runs |-> <<>>]
    /\ failedAt = [r \in Runs |-> "none"]

Uploads == [size : 0..MaxSize, frames : 0..MaxFrames, name : FileNames]
ConcUploads == [size : {ChunkSize}, frames : 0..ConcFrames, name : FileNames]

\* one session presses the button
Init ==
    /\ InitCommon
    /\ \E u \in Uploads :
          /\ upload = [r \in Runs |-> IF r = 1 THEN u ELSE NoUpload]
          /\ pc = [r \in Runs |-> IF r = 1 THEN "start" ELSE "idle"]

\* two sessions press the button
InitConc ==
    /\ InitCommon
    /\ upload \in [Runs -> ConcUploads]
    /\ pc = [r \in Runs |-> "start"]

-----------------------------------------------------------------------------
\* Exception / return plumbing

\* `except Exception as e: st.error(...)` (lines 209-210), or the return of
\* line 148: the run ends with the messages shown
Fail(r, stage, msgs, next) ==
    /\ pc' = [pc EXCEPT ![r] = next]
    /\ errors' = [errors EXCEPT ![r] = @ \o msgs]
    /\ failedAt' = [failedAt EXCEPT ![r] = stage]

\* leaving the `with tempfile.TemporaryDirectory()` block of line 143
ExitTempDir(r) ==
    /\ tempDir' = [tempDir EXCEPT ![r] = FALSE]
    /\ audioFile' = CleanupTempDir(audioFile, r)

\* an exception raised inside the with block
Raise(r, stage) ==
    /\ Fail(r, stage, <<"Errore durante l'elaborazione">>, "done")
    /\ ExitTempDir(r)


-----------------------------------------------------------------------------
\* process_large_file (lines 76-92), called at line 139

\* lines 134-138 and 78-83: both progress bars start at 0, the temporary
\* video file is created (delete=False)
StartRun(r) ==
    /\ pc[r] = "start"
    /\ progressBar' = [progressBar EXCEPT ![r] = <<<<0, 1>>>>]
    /\ ingestBar' = [ingestBar EXCEPT ![r] = <<<<0, 1>>>>]
    /\ videoFile' = [videoFile EXCEPT ![r] = TRUE]
    /\ bytesRead' = [bytesRead EXCEPT ![r] = 0]
    /\ pc' = [pc EXCEPT ![r] = "ingest"]
    /\ UNCHANGED <<clock, upload, tempDir, audioFile, framesRead, framesProcessed,
                   doc, engineLog, outputFile, outputDir, offered, artifactLog,
                   errors, failedAt>>

\* uploaded_file.read(chunk_size)
ReadChunk(r) == Min(ChunkSize, upload[r].size - bytesRead[r])

\* lines 85-90, a non-empty chunk is written
IngestChunk(r) ==
    /\ pc[r] = "ingest"
    /\ ReadChunk(r) > 0
    /\ bytesRead' = [bytesRead EXCEPT ![r] = @ + ReadChunk(r)]
    /\ ingestBar' = [ingestBar EXCEPT ![r] =
                        Append(@, Fraction(bytesRead[r] + ReadChunk(r), upload[r].size))]
    /\ UNCHANGED <<clock, pc, upload, videoFile, progressBar, tempDir, audioFile,
                   framesRead, framesProcessed, doc, engineLog, outputFile,
                   outputDir, offered, artifactLog, errors, failedAt>>

\* line 88 raises: the with blocks close the file, which stays on disk, and
\* the exception reaches line 209
IngestWriteFails(r) ==
    /\ pc[r] = "ingest"
    /\ ReadChunk(r) > 0
    /\ Fail(r, "ingest", <<"Errore durante l'elaborazione">>, "done")
    /\ UNCHANGED <<clock, upload, videoFile, bytesRead, ingestBar, progressBar,
                   tempDir, audioFile, framesRead, framesProcessed, doc, engineLog,
                   outputFile, outputDir, offered, artifactLog>>

\* lines 86-87 and 92, then lines 141-145: the empty read ends the loop, the
\* temporary directory is created
IngestEnd(r) ==
    /\ pc[r] = "ingest"
    /\ ReadChunk(r) = 0
    /\ tempDir' = [tempDir EXCEPT ![r] = TRUE]
    /\ pc' = [pc EXCEPT ![r] = "extract"]
    /\ UNCHANGED <<clock, upload, videoFile, bytesRead, ingestBar, progressBar,
                   audioFile, framesRead, framesProcessed, doc, engineLog,
                   outputFile, outputDir, offered, artifactLog, errors, failedAt>>

-----------------------------------------------------------------------------
\* extract_audio (lines 61-74), called at line 146

\* ffmpeg.run succeeds: audio.wav exists
ExtractAudio(r) ==
    /\ pc[r] = "extract"
    /\ audioFile' = [audioFile EXCEPT ![r] = TRUE]
    /\ pc' = [pc EXCEPT ![r] = AfterExtract(TRUE)]
    /\ UNCHANGED <<clock, upload, videoFile, bytesRead, ingestBar, progressBar,
                   tempDir, framesRead, framesProcessed, doc, engineLog,
                   outputFile, outputDir, offered, artifactLog, errors, failedAt>>

\* ffmpeg.Error: lines 72-74 show the first message and return False, lines
\* 147-148 show the second and return, which leaves the with block
ExtractAudioFails(r) ==
    /\ pc[r] = "extract"
    /\ Fail(r, "extract", <<"Errore nell'estrazione dell'audio: ",
                            "Errore nell'estrazione dell'audio">>, AfterExtract(FALSE))
    /\ ExitTempDir(r)
    /\ UNCHANGED <<clock, upload, videoFile, bytesRead, ingestBar, progressBar,
                   framesRead, framesProcessed, doc, engineLog, outputFile,
                   outputDir, offered, artifactLog>>

-----------------------------------------------------------------------------
\* create_transcriber_app, lines 150-186

\* lines 151-160: the document gets its header, the model is loaded
PrepareDocument(r) ==
    /\ pc[r] = "prepare"
    /\ doc' = [doc EXCEPT ![r] = NewDocument(upload[r].name)]
    /\ pc' = [pc EXCEPT ![r] = "open"]
    /\ UNCHANGED <<clock, upload, videoFile, bytesRead, ingestBar, progressBar,
                   tempDir, audioFile, framesRead, framesProcessed, engineLog,
                   outputFile, outputDir, offered, artifactLog, errors, failedAt>>

\* line 158-160 raise (the model cannot be fetched or loaded)
LoadModelFails(r) ==
    /\ pc[r] = "prepare"
    /\ doc' = [doc EXCEPT ![r] = NewDocument(upload[r].name)]
    /\ Raise(r, "model")
    /\ UNCHANGED <<clock, upload, videoFile, bytesRead, ingestBar, progressBar,
                   framesRead, framesProcessed, engineLog, outputFile, outputDir,
                   offered, artifactLog>>

\* lines 165-167
OpenWave(r) ==
    /\ pc[r] = "open"
    /\ framesRead' = [framesRead EXCEPT ![r] = 0]
    /\ framesProcessed' = [framesProcessed EXCEPT ![r] = 0]
    /\ pc' = [pc EXCEPT ![r] = "decode"]
    /\ UNCHANGED <<clock, upload, videoFile, bytesRead, ingestBar, progressBar,
                   tempDir, audioFile, doc, engineLog, outputFile, outputDir,
                   offered, artifactLog, errors, failedAt>>

\* wave.open raises wave.Error on a malformed stream
OpenWaveFails(r) ==
    /\ pc[r] = "open"
    /\ Raise(r, "open")
    /\ UNCHANGED <<clock, upload, videoFile, bytesRead, ingestBar, progressBar,
                   framesRead, framesProcessed, doc, engineLog, outputFile,
                   outputDir, offered, artifactLog>>

\* wf.readframes(4000): the number of frames returned
ReadFrames(r) == Min(FrameBatch, upload[r].frames - framesRead[r])

LogEntry(op, n, commit, text, ok) ==
    [op |-> op, frames |-> n, commit |-> commit, text |-> text, ok |-> ok]

\* lines 170-181 for a non-empty read: the engine takes the frames and either
\* commits a text or keeps accumulating
FeedFrames(r) ==
    /\ pc[r] = "decode"
    /\ ~EndOfStream(ReadFrames(r))
    /\ \E commit \in BOOLEAN : \E t \in Texts :
          /\ ~commit => t = <<>>
          /\ engineLog' = [engineLog EXCEPT ![r] =
                              Append(@, LogEntry("feed", ReadFrames(r), commit, t, TRUE))]
          /\ doc' = [doc EXCEPT ![r] =
                        IF commit /\ Truthy(t) THEN AddParagraph(@, t) ELSE @]
    /\ framesRead' = [framesRead EXCEPT ![r] = @ + ReadFrames(r)]
    /\ framesProcessed' = [framesProcessed EXCEPT ![r] = @ + FrameBatch]
    /\ progressBar' = [progressBar EXCEPT ![r] =
                          Append(@, Fraction(framesProcessed[r] + FrameBatch, upload[r].frames))]
    /\ UNCHANGED <<clock, pc, upload, videoFile, bytesRead, ingestBar, tempDir,
                   audioFile, outputFile, outputDir, offered, artifactLog, errors,
                   failedAt>>

\* rec.AcceptWaveform raises on the frames just read
EngineFails(r) ==
    /\ pc[r] = "decode"
    /\ ~EndOfStream(ReadFrames(r))
    /\ engineLog' = [engineLog EXCEPT ![r] =
                        Append(@, LogEntry("feed", ReadFrames(r), FALSE, <<>>, FALSE))]
    /\ framesRead' = [framesRead EXCEPT ![r] = @ + ReadFrames(r)]
    /\ Raise(r, "engine")
    /\ UNCHANGED <<clock, upload, videoFile, bytesRead, ingestBar, progressBar,
                   framesProcessed, doc, outputFile, outputDir, offered,
                   artifactLog>>

\* lines 171-172: the zero-length read ends the loop and closes the wave file
EndOfAudio(r) ==
    /\ pc[r] = "decode"
    /\ EndOfStream(ReadFrames(r))
    /\ framesRead' = [framesRead EXCEPT ![r] = @ + ReadFrames(r)]
    /\ pc' = [pc EXCEPT ![r] = "flush"]
    /\ UNCHANGED <<clock, upload, videoFile, bytesRead, ingestBar, progressBar,
                   tempDir, audioFile, framesProcessed, doc, engineLog, outputFile,
                   outputDir, offered, artifactLog, errors, failedAt>>

\* lines 184-186
FinalResult(r) ==
    /\ pc[r] = "flush"
    /\ \E t \in Texts :
          /\ engineLog' = [engineLog EXCEPT ![r] =
                              Append(@, LogEntry("flush", 0, TRUE, t, TRUE))]
          /\ doc' = [doc EXCEPT ![r] = IF Truthy(t) THEN AddParagraph(@, t) ELSE @]
    /\ pc' = [pc EXCEPT ![r] = "save"]
    /\ UNCHANGED <<clock, upload, videoFile, bytesRead, ingestBar, progressBar,
                   tempDir, audioFile, framesRead, framesProcessed, outputFile,
                   outputDir, offered, artifactLog, errors, failedAt>>

\* rec.FinalResult raises
FinalResultFails(r) ==
    /\ pc[r] = "flush"
    /\ engineLog' = [engineLog EXCEPT ![r] =
                        Append(@, LogEntry("flush", 0, FALSE, <<>>, FALSE))]
    /\ Raise(r, "flush")
    /\ UNCHANGED <<clock, upload, videoFile, bytesRead, ingestBar, progressBar,
                   framesRead, framesProcessed, doc, outputFile, outputDir,
                   offered, artifactLog>>

-----------------------------------------------------------------------------
\* create_transcriber_app, lines 188-210

\* lines 189-190
SaveDocument(r) ==
    /\ pc[r] = "save"
    /\ outputFile' = [outputFile EXCEPT ![r] = OutputName(clock)]
    /\ outputDir' = WriteFile(outputDir, OutputName(clock),
                              [owner |-> r, doc |-> doc[r], complete |-> TRUE])
    /\ artifactLog' = [artifactLog EXCEPT ![r] = Append(@, "save")]
    /\ pc' = [pc EXCEPT ![r] = "offer"]
    /\ UNCHANGED <<clock, upload, videoFile, bytesRead, ingestBar, progressBar,
                   tempDir, audioFile, framesRead, framesProcessed, doc, engineLog,
                   offered, errors, failedAt>>

\* doc.save raises, before the file is created or with part of it written
SaveDocumentFails(r) ==
    /\ pc[r] = "save"
    /\ outputFile' = [outputFile EXCEPT ![r] = OutputName(clock)]
    /\ \E partial \in BOOLEAN :
          outputDir' = IF partial
                       THEN WriteFile(outputDir, OutputName(clock),
                                      [owner |-> r, doc |-> doc[r], complete |-> FALSE])
                       ELSE outputDir
    /\ Raise(r, "save")
    /\ UNCHANGED <<clock, upload, videoFile, bytesRead, ingestBar, progressBar,
                   framesRead, framesProcessed, doc, engineLog, offered,
                   artifactLog>>

\* lines 193-201: the file is opened and its content handed to the download
\* button; open raises FileNotFoundError when the file is gone
OfferDownload(r) ==
    /\ pc[r] = "offer"
    /\ IF Exists(outputDir, outputFile[r])
       THEN /\ offered' = [offered EXCEPT ![r] = outputDir[outputFile[r]]]
            /\ artifactLog' = [artifactLog EXCEPT ![r] = Append(@, "offer")]
            /\ pc' = [pc EXCEPT ![r] = "cleanup"]
            /\ UNCHANGED <<tempDir, audioFile, errors, failedAt>>
       ELSE /\ Raise(r, "offer")
            /\ UNCHANGED <<offered, artifactLog>>
    /\ UNCHANGED <<clock, upload, videoFile, bytesRead, ingestBar, progressBar,
                   framesRead, framesProcessed, doc, engineLog, outputFile,
                   outputDir>>

\* st.download_button raises
OfferDownloadFails(r) ==
    /\ pc[r] = "offer"
    /\ Exists(outputDir, outputFile[r])
    /\ Raise(r, "offer")
    /\ UNCHANGED <<clock, upload, videoFile, bytesRead, ingestBar, progressBar,
                   framesRead, framesProcessed, doc, engineLog, outputFile,
                   outputDir, offered, artifactLog>>

\* line 204
CheckOutputFile(r) ==
    /\ pc[r] = "cleanup"
    /\ pc' = [pc EXCEPT ![r] = IF Exists(outputDir, outputFile[r])
                               THEN "remove" ELSE "finish"]
    /\ UNCHANGED <<clock, upload, videoFile, bytesRead, ingestBar, progressBar,
                   tempDir, audioFile, framesRead, framesProcessed, doc, engineLog,
                   outputFile, outputDir, offered, artifactLog, errors, failedAt>>

\* line 205; os.remove raises FileNotFoundError when the file has gone since
\* the test of line 204
RemoveOutputFile(r) ==
    /\ pc[r] = "remove"
    /\ IF Exists(outputDir, outputFile[r])
       THEN /\ outputDir' = RemoveFile(outputDir, outputFile[r])
            /\ artifactLog' = [artifactLog EXCEPT ![r] = Append(@, "remove")]
            /\ pc' = [pc EXCEPT ![r] = "finish"]
            /\ UNCHANGED <<tempDir, audioFile, errors, failedAt>>
       ELSE /\ Raise(r, "cleanup")
            /\ UNCHANGED <<outputDir, artifactLog>>
    /\ UNCHANGED <<clock, upload, videoFile, bytesRead, ingestBar, progressBar,
                   framesRead, framesProcessed, doc, engineLog, outputFile,
                   offered>>

\* lines 206-207, then the end of the with block of line 143
RemoveVideoFile(r) ==
    /\ pc[r] = "finish"
    /\ videoFile' = [videoFile EXCEPT ![r] = FALSE]
    /\ ExitTempDir(r)
    /\ pc' = [pc EXCEPT ![r] = "done"]
    /\ UNCHANGED <<clock, upload, bytesRead, ingestBar, progressBar, framesRead,
                   framesProcessed, doc, engineLog, outputFile, outputDir, offered,
                   artifactLog, errors, failedAt>>

\* time passes
Tick ==
    /\ clock < MaxClock
    /\ clock' = clock + 1
    /\ UNCHANGED <<pc, upload, videoFile, bytesRead, ingestBar, progressBar,
                   tempDir, audioFile, framesRead, framesProcessed, doc, engineLog,
                   outputFile, outputDir, offered, artifactLog, errors, failedAt>>

Next ==
    \/ Tick
    \/ \E r \in Runs :
          \/ StartRun(r)
          \/ IngestChunk(r)
          \/ IngestWriteFails(r)
          \/ IngestEnd(r)
          \/ ExtractAudio(r)
          \/ ExtractAudioFails(r)
          \/ PrepareDocument(r)
          \/ LoadModelFails(r)
          \/ OpenWave(r)
          \/ OpenWaveFails(r)
          \/ FeedFrames(r)
          \/ EngineFails(r)
          \/ EndOfAudio(r)
          \/ FinalResult(r)
          \/ FinalResultFails(r)
          \/ SaveDocument(r)
          \/ SaveDocumentFails(r)
          \/ OfferDownload(r)
          \/ OfferDownloadFails(r)
          \/ CheckOutputFile(r)
          \/ RemoveOutputFile(r)
          \/ RemoveVideoFile(r)

\* one run
Spec == Init /\ [][Next]_vars

\* two concurrent runs
SpecConc == InitConc /\ [][Next]_vars

-----------------------------------------------------------------------------
\* Vocabulary of the properties

Active == {r \in Runs : pc[r] # "idle"}

\* the paragraphs after the header
Body(d) == SubSeq(d, HeaderLen + 1, Len(d))

Last(s) == s[Len(s)]

\* the texts the engine yielded (commit or flush), non-empty ones, in order
Yielded(log) == SelectSeq(log, LAMBDA e : e.ok /\ e.commit /\ e.text # <<>>)
Emitted(log) == [i \in 1..Len(Yielded(log)) |-> Yielded(log)[i].text]

Flushes(log) == SelectSeq(log, LAMBDA e : e.op = "flush")
Feeds(log) == SelectSeq(log, LAMBDA e : e.op = "feed")

RECURSIVE FramesFed(_)
FramesFed(log) == IF log = <<>> THEN 0
                  ELSE (IF Head(log).op = "feed" THEN Head(log).frames ELSE 0) + FramesFed(Tail(log))

\* str.strip()
RECURSIVE TrimLeft(_)
TrimLeft(t) == IF t # <<>> /\ Head(t) = " " THEN TrimLeft(Tail(t)) ELSE t
RECURSIVE TrimRight(_)
TrimRight(t) == IF t # <<>> /\ Last(t) = " " THEN TrimRight(SubSeq(t, 1, Len(t) - 1)) ELSE t
Trim(t) == TrimRight(TrimLeft(t))

Ended(r) == pc[r] = "done"
Succeeded(r) == pc[r] = "done" /\ failedAt[r] = "none"
Failed(r) == pc[r] = "done" /\ failedAt[r] # "none"

ArtifactsOf(r) == {n \in DOMAIN outputDir : outputDir[n].owner = r}

IngestComplete(r) == pc[r] \notin {"idle", "start", "ingest"} /\ failedAt[r] # "ingest"
DecodeComplete(r) ==
    \/ pc[r] \in {"flush", "save", "offer", "cleanup", "remove", "finish"}
    \/ pc[r] = "done" /\ failedAt[r] \in {"none", "flush", "save", "offer", "cleanup"}

NonDecreasing(bar) == \A i \in 1..Len(bar) - 1 : FracLeq(bar[i], bar[i + 1])
InUnitInterval(bar) == \A i \in 1..Len(bar) : FracLeq(<<0, 1>>, bar[i]) /\ FracLeq(bar[i], <<1, 1>>)

-----------------------------------------------------------------------------
\* C1: when a run has ended, on whichever path, the ingested video file of
\* the run no longer exists on disk.
C1_VideoRemoved == \A r \in Active : Ended(r) => ~videoFile[r]

\* C2: a run that ended in success sealed exactly one artifact; a run that
\* ended in failure left no artifact of its own in the output directory and
\* offered nothing for download.
C2_AllOrNothing ==
    \A r \in Active :
        /\ Succeeded(r) => Len(SelectSeq(artifactLog[r], LAMBDA e : e = "save")) = 1
        /\ Failed(r) => ArtifactsOf(r) = {} /\ offered[r] = NoArtifact

\* C3: the paragraphs after the header are exactly the non-empty texts the
\* engine yielded, each once and in the order it yielded them, and a
\* non-empty flush text is the last paragraph.
C3_Ordering ==
    \A r \in Active :
        doc[r] # <<>> =>
            /\ Body(doc[r]) = Emitted(engineLog[r])
            /\ (/\ engineLog[r] # <<>>
                /\ Last(engineLog[r]).op = "flush"
                /\ Last(engineLog[r]).ok
                /\ Last(engineLog[r]).text # <<>>)
               => Last(doc[r]) = Last(engineLog[r]).text

C3_Witness ==
    \E r \in Active :
        /\ pc[r] = "save"
        /\ Body(doc[r]) = << <<"a">>, <<"b">> >>
        /\ Len(engineLog[r]) = 3
        /\ engineLog[r][2].commit /\ engineLog[r][2].text = <<>>
        /\ Last(engineLog[r]).text = <<"b">>

\* C4: no paragraph after the header is empty once trimmed, and when every
\* text the engine yielded is empty once trimmed the document holds the
\* header only.
C4_NoEmptySegment ==
    \A r \in Active :
        /\ \A i \in HeaderLen + 1..Len(doc[r]) : Trim(doc[r][i]) # <<>>
        /\ (\A i \in 1..Len(engineLog[r]) : Trim(engineLog[r][i].text) = <<>>)
              => Len(doc[r]) <= HeaderLen

\* C5: within the ingest stage and within the decode stage the fraction
\* shown stays in [0, 1], never decreases, and is 1 when the stage completes.
C5_Progress ==
    \A r \in Active :
        /\ InUnitInterval(ingestBar[r]) /\ NonDecreasing(ingestBar[r])
        /\ InUnitInterval(progressBar[r]) /\ NonDecreasing(progressBar[r])
        /\ IngestComplete(r) => FracIsOne(Last(ingestBar[r]))
        /\ DecodeComplete(r) => FracIsOne(Last(progressBar[r]))

\* C6: the flush is called at most once and is the last call on the engine;
\* it is called only when every frame of the audio has been fed, it has
\* been called exactly once in every run that got past it, and its text is
\* appended exactly when it is non-empty, as for a committed text.
C6_FlushOnce ==
    \A r \in Active :
        LET log == engineLog[r]
            flushed == Len(Flushes(log)) = 1
        IN  /\ Len(Flushes(log)) <= 1
            /\ \A i \in 1..Len(log) : log[i].op = "flush" => i = Len(log)
            /\ flushed => FramesFed(log) = upload[r].frames
            /\ pc[r] = "flush" => ~flushed /\ FramesFed(log) = upload[r].frames
            /\ (DecodeComplete(r) /\ pc[r] # "flush") => flushed
            /\ (flushed /\ Last(log).ok) =>
                  Len(Body(doc[r])) = Len(Emitted(Feeds(log)))
                                      + (IF Len(Last(log).text) = 0 THEN 0 ELSE 1)

C6_Witness ==
    \E r \in Active :
        /\ pc[r] = "save"
        /\ Len(Feeds(engineLog[r])) = 2
        /\ Last(engineLog[r]).op = "flush"
        /\ Last(engineLog[r]).text = <<"a">>
        /\ Last(doc[r]) = <<"a">>

\* C7: a failed run has stopped and shown an error message; after an
\* extraction failure the engine was never called and nothing was saved or
\* offered; after an engine failure on a frame that frame is the last call
\* on the engine, it added no paragraph, and nothing was flushed, saved or
\* offered.
C7_FailFast ==
    \A r \in Active :
        /\ failedAt[r] # "none" => pc[r] = "done" /\ Len(errors[r]) >= 1
        /\ failedAt[r] = "none" => errors[r] = <<>>
        /\ failedAt[r] \in {"ingest", "extract"} =>
              engineLog[r] = <<>> /\ artifactLog[r] = <<>> /\ offered[r] = NoArtifact
        /\ failedAt[r] = "engine" =>
              /\ ~Last(engineLog[r]).ok /\ Last(engineLog[r]).op = "feed"
              /\ Flushes(engineLog[r]) = <<>>
              /\ Body(doc[r]) = Emitted(SubSeq(engineLog[r], 1, Len(engineLog[r]) - 1))
              /\ artifactLog[r] = <<>> /\ offered[r] = NoArtifact
        /\ Len(SelectSeq(engineLog[r], LAMBDA e : ~e.ok)) <= 1

C7_Witness ==
    \E r \in Active :
        /\ failedAt[r] = "engine"
        /\ Len(engineLog[r]) = 2
        /\ Body(doc[r]) = << <<"a">> >>
        /\ framesRead[r] = upload[r].frames

\* C8: a run saves, then offers, then removes, in this order and each at
\* most once; a run that ended in success did all three, offered the
\* artifact it sealed from its document, and left no artifact of its own in
\* the output directory.
C8_ArtifactLifecycle ==
    \A r \in Active :
        /\ \E k \in 0..3 : artifactLog[r] = SubSeq(<<"save", "offer", "remove">>, 1, k)
        /\ Succeeded(r) =>
              /\ artifactLog[r] = <<"save", "offer", "remove">>
              /\ offered[r] = [owner |-> r, doc |-> doc[r], complete |-> TRUE]
              /\ ArtifactsOf(r) = {}
              /\ ~Exists(outputDir, outputFile[r])

C8_Witness ==
    \E r \in Active :
        /\ Succeeded(r)
        /\ artifactLog[r] = <<"save", "offer", "remove">>
        /\ Len(Body(offered[r].doc)) >= 1

\* C9: audio.wav exists only while the temporary directory of the run is
\* open, and neither exists once the run has ended.
C9_AudioScoped ==
    \A r \in Active :
        /\ audioFile[r] => tempDir[r]
        /\ Ended(r) => ~audioFile[r] /\ ~tempDir[r]

C9_Witness ==
    \E r \in Active :
        /\ Ended(r) /\ failedAt[r] = "engine"
        /\ engineLog[r] # <<>>
        /\ ~audioFile[r]

\* the artifact run r seals from its own document
OwnArtifact(r) == [owner |-> r, doc |-> doc[r], complete |-> TRUE]

\* no other run has touched the artifact of run r before r offered it
Isolated(r) ==
    /\ pc[r] = "offer" =>
          Exists(outputDir, outputFile[r]) /\ outputDir[outputFile[r]] = OwnArtifact(r)
    /\ offered[r] # NoArtifact => offered[r] = OwnArtifact(r)

\* C10 (as stated): for any interleaving of two runs, a run that has saved
\* and not yet offered still finds its own artifact in place, and what a run
\* offered is the artifact it sealed from its own document.
C10_Isolated == \A r \in Active : Isolated(r)

\* C10 (amended): the same, for a run whose artifact name (its sealing time
\* at one-second resolution) no other run shares.
C10_IsolatedDistinctNames ==
    \A r \in Active :
        (\A s \in Active \ {r} : outputFile[s] # outputFile[r]) => Isolated(r)

C10_Witness ==
    /\ \A r \in Runs : pc[r] = "cleanup" /\ offered[r] = OwnArtifact(r)
    /\ outputFile[1] # outputFile[2]
    /\ Body(doc[1]) # Body(doc[2])

=============================================================================
